---- MODULE Spec2Model ----
(***************************************************************************)
(* Model of the omni.kit.imageseq extension: the layout computation of     *)
(* core.py (calculate_transforms), the scene operations built on it        *)
(* (create_image_sequence_group_prim, update_image_sequence_prims) and the *)
(* panel handlers of window.py that invoke them.                           *)
(*                                                                         *)
(* Numbers.  The code computes in Python floats.  The model computes in    *)
(* exact rationals <<n, d>> (d > 0, lowest terms), so equalities below are *)
(* equalities of real numbers, free of rounding.  Angles in radians are    *)
(* kept as rational multiples of pi (math.tau is 2), and math.sin/math.cos *)
(* are evaluated by Bhaskara's rational approximation, which is exact at   *)
(* the multiples of 30 and 90 degrees and within 0.002 elsewhere.          *)
(***************************************************************************)
EXTENDS Integers, Sequences, FiniteSets, TLC

VARIABLES
    images,      \* calculate_transforms: the opened images, in input order
    config,      \* calculate_transforms: the Config passed in
    result,      \* calculate_transforms: what the call produced
    files,       \* the image files present on disk
    stage_open,  \* omni.usd.get_context().get_stage() is not None
    prim,        \* the image sequence root prim the panel works on
    models,      \* the panel's value models
    selected_prim_path,  \* KitImageSequenceWindow._selected_prim_path
    selection,   \* what is selected in the stage
    event_pending,       \* a SELECTION_CHANGED event waits in the event stream
    last,        \* the handler that ran last and how it ended
    steps,       \* how many panel handlers and host operations have run
    window,      \* KitImageSequenceExtension._window
    windows,     \* every KitImageSequenceWindow constructed so far
    callbacks,   \* windows whose visibility change waits to be reported
    tasks,       \* _destroy_window_async tasks waiting for the next frame
    menu,        \* the value of the editor menu item
    running      \* between on_startup and on_shutdown

layoutVars == <<images, config, result>>
sceneVars == <<files, stage_open, prim, models, selected_prim_path, selection,
               event_pending, last, steps>>
extVars == <<window, windows, callbacks, tasks, menu, running>>
vars == <<images, config, result, files, stage_open, prim, models,
          selected_prim_path, selection, event_pending, last, steps,
          window, windows, callbacks, tasks, menu, running>>

\* ------------------------------------------------------------------------
\* Bounds of the model
\* ------------------------------------------------------------------------
MaxImages == 3
MaxPerRow == 3
MaxFiles == 3
MaxSteps == 5
MaxWindows == 3

\* ------------------------------------------------------------------------
\* Exact rational arithmetic (the reals the float code approximates)
\* ------------------------------------------------------------------------
Abs(n) == IF n < 0 THEN -n ELSE n

RECURSIVE GCD(_, _)
GCD(a, b) == IF b = 0 THEN a ELSE GCD(b, a % b)

R(n, d) ==
    LET s == IF d < 0 THEN -1 ELSE 1
        g == GCD(Abs(n), Abs(d))
    IN  <<(s * n) \div g, (s * d) \div g>>

RatOfInt(n) == <<n, 1>>
Zero == <<0, 1>>
One == <<1, 1>>

RatNeg(a) == <<-a[1], a[2]>>

RatAdd(a, b) ==
    LET g == GCD(a[2], b[2])
    IN  R(a[1] * (b[2] \div g) + b[1] * (a[2] \div g), (a[2] \div g) * b[2])

RatSub(a, b) == RatAdd(a, RatNeg(b))

RatMul(a, b) ==
    LET x == R(a[1], b[2])
        y == R(b[1], a[2])
    IN  R(x[1] * y[1], x[2] * y[2])

\* b # 0
RatDiv(a, b) == RatMul(a, R(b[2], b[1]))

RatLess(a, b) == a[1] * b[2] < b[1] * a[2]

RatMax(a, b) == IF RatLess(a, b) THEN b ELSE a

RatFloor(a) == a[1] \div a[2]

RatCeil(a) == -((-a[1]) \div a[2])

IntMax(a, b) == IF a < b THEN b ELSE a

\* F(v), with v evaluated once (a local variable holding a computed value)
Bind(v, F(_)) == CHOOSE y \in {F(x) : x \in {v}} : TRUE

RECURSIVE SeqMax(_, _)
\* max([...]) of a non-empty list of integers, from position i on
SeqMax(s, i) == IF i = Len(s) THEN s[i] ELSE IntMax(s[i], SeqMax(s, i + 1))

\* ------------------------------------------------------------------------
\* math: tau, degrees, sin, cos.  A radian value is its coefficient of pi.
\* ------------------------------------------------------------------------
TAU == <<2, 1>>

\* math.degrees(x) = x * 180 / pi
degrees(x) == RatMul(x, RatOfInt(180))

\* Bhaskara: sin(d degrees) for 0 <= d <= 180
SinHalfTurn(d) ==
    LET p == RatMul(d, RatSub(RatOfInt(180), d))
    IN  RatDiv(RatMul(RatOfInt(4), p), RatSub(RatOfInt(40500), p))

SinDeg(d) ==
    LET r == RatSub(d, RatOfInt(360 * RatFloor(RatDiv(d, RatOfInt(360)))))
    IN  IF RatLess(RatOfInt(180), r)
        THEN RatNeg(SinHalfTurn(RatSub(r, RatOfInt(180))))
        ELSE SinHalfTurn(r)

sin(x) == SinDeg(degrees(x))

cos(x) == SinDeg(RatAdd(degrees(x), RatOfInt(90)))

\* ------------------------------------------------------------------------
\* core.py: calculate_transforms
\*   an image is [filename, size = <<width px, height px>>] (PIL's Image)
\*   a Transform is [translate, scale, rotate], each a triple of rationals
\* ------------------------------------------------------------------------
INCHES_TO_CM == R(77, 50)

\* pixels -> inches -> centimetres; ppi # 0
px_to_cm(px, ppi) == RatMul(RatDiv(RatOfInt(px), RatOfInt(ppi)), INCHES_TO_CM)

effective_images_per_row(image_count, cfg) ==
    IF cfg.images_per_row < 1 THEN image_count ELSE cfg.images_per_row

total_rows(image_count, images_per_row) == RatCeil(R(image_count, images_per_row))

image_gap_cm(cfg, max_image_width_cm) == RatMul(cfg.gap_pct, max_image_width_cm)

\* mutant: counts the widths of all images of a row, not the spans between
\* their centres
total_width_cm_full_count(max_image_width_cm, gap_cm, images_per_row) ==
    RatMax(RatAdd(RatMul(max_image_width_cm, RatOfInt(images_per_row)),
                  RatMul(gap_cm, RatOfInt(IntMax(images_per_row - 1, 0)))),
           Zero)

total_width_cm(max_image_width_cm, gap_cm, images_per_row) ==
    RatMax(RatAdd(RatMul(max_image_width_cm, RatOfInt(images_per_row - 1)),
                  RatMul(gap_cm, RatOfInt(IntMax(images_per_row - 1, 0)))),
           Zero)

total_height_cm(max_image_height_cm, gap_cm, rows) ==
    RatAdd(RatMul(RatOfInt(rows - 1), max_image_height_cm),
           RatMul(gap_cm, RatOfInt(IntMax(rows - 1, 0))))

\* Everything calculate_transforms derives before its loop (lines 75-99)
layout_extents(imgs, cfg) ==
    LET n    == Len(imgs)
        maxw == px_to_cm(SeqMax([i \in 1..n |-> imgs[i].size[1]], 1), cfg.ppi)
        maxh == px_to_cm(SeqMax([i \in 1..n |-> imgs[i].size[2]], 1), cfg.ppi)
        ipr  == effective_images_per_row(n, cfg)
        rows == total_rows(n, ipr)
        gap  == image_gap_cm(cfg, maxw)
        tw   == total_width_cm(maxw, gap, ipr)
        th   == total_height_cm(maxh, gap, rows)
    IN  [max_image_width_cm  |-> maxw,
         max_image_height_cm |-> maxh,
         images_per_row      |-> ipr,
         total_rows          |-> rows,
         image_gap_cm        |-> gap,
         total_width_cm      |-> tw,
         total_height_cm     |-> th,
         left_most_cm        |-> RatMul(R(-1, 2), tw),
         top_most_cm         |-> RatMul(R(1, 2), th)]

\* mutant: wraps one image late
row_is_full_off_by_one(seen, images_per_row) == seen > images_per_row

\* line 107: the row is full, wrap before placing the next image
row_is_full(seen, images_per_row) == seen > images_per_row - 1

image_scale(image, cfg) ==
    <<px_to_cm(image.size[1], cfg.ppi), px_to_cm(image.size[2], cfg.ppi), One>>

lerp_t(left_current_cm, ext) ==
    IF RatLess(Zero, ext.total_width_cm)
    THEN RatDiv(RatSub(left_current_cm, ext.left_most_cm), ext.total_width_cm)
    ELSE Zero

arc_phase(t) ==
    LET turns == RatMul(R(1, 2), TAU)
    IN  RatAdd(RatMul(RatSub(One, t), turns), RatMul(R(1, 4), TAU))

arc_amp(ext) == RatMul(R(1, 2), ext.total_width_cm)

\* mutant: the depth of the arc is not scaled by curve_pct
image_translate_unscaled_depth(left_current_cm, top_current_cm, ext, cfg) ==
    LET ph  == arc_phase(lerp_t(left_current_cm, ext))
        amp == arc_amp(ext)
        x   == RatAdd(RatMul(left_current_cm, RatSub(One, cfg.curve_pct)),
                      RatMul(RatMul(cfg.curve_pct, amp), sin(ph)))
        z   == RatAdd(Zero, RatMul(amp, cos(ph)))
    IN  <<x, top_current_cm, z>>

image_translate(left_current_cm, top_current_cm, ext, cfg) ==
    LET ph  == arc_phase(lerp_t(left_current_cm, ext))
        amp == arc_amp(ext)
        x   == RatAdd(RatMul(left_current_cm, RatSub(One, cfg.curve_pct)),
                      RatMul(RatMul(cfg.curve_pct, amp), sin(ph)))
        z   == RatAdd(Zero, RatMul(RatMul(cfg.curve_pct, amp), cos(ph)))
    IN  <<x, top_current_cm, z>>

\* mutant: measures the yaw from the full circle instead of the half circle
yaw_angle_full_circle(curve_pct, ph) ==
    RatMul(RatNeg(curve_pct), degrees(RatAdd(RatNeg(ph), TAU)))

yaw_angle(curve_pct, ph) ==
    RatMul(RatNeg(curve_pct), degrees(RatAdd(RatNeg(ph), RatMul(R(1, 2), TAU))))

image_rotate(left_current_cm, ext, cfg) ==
    <<Zero, yaw_angle(cfg.curve_pct, arc_phase(lerp_t(left_current_cm, ext))), Zero>>

\* transforms[key] = value of a Python dict
DictSet(d, key, value) ==
    [k \in DOMAIN d \cup {key} |-> IF k = key THEN value ELSE d[k]]

EmptyDict == [k \in {} |-> Zero]

\* One iteration of the loop of lines 106-138 on the loop state
\* st = [left_current_cm, top_current_cm, seen, transforms]
loop_body(st, image, ext, cfg) ==
    LET wrap == row_is_full(st.seen, ext.images_per_row)
        left == IF wrap THEN ext.left_most_cm ELSE st.left_current_cm
        top  == IF wrap
                THEN RatSub(st.top_current_cm,
                            RatAdd(ext.max_image_height_cm, ext.image_gap_cm))
                ELSE st.top_current_cm
        seen == IF wrap THEN 0 ELSE st.seen
        transform == [translate |-> image_translate(left, top, ext, cfg),
                      scale     |-> image_scale(image, cfg),
                      rotate    |-> image_rotate(left, ext, cfg)]
    IN  [left_current_cm |-> RatAdd(left, RatAdd(ext.max_image_width_cm, ext.image_gap_cm)),
         top_current_cm  |-> top,
         seen            |-> seen + 1,
         transforms      |-> DictSet(st.transforms, image.filename, transform)]

RECURSIVE layout_loop_skips_last(_, _, _, _, _)
\* mutant: the loop stops before the last image
layout_loop_skips_last(imgs, i, st, ext, cfg) ==
    IF i >= Len(imgs)
    THEN st.transforms
    ELSE Bind(loop_body(st, imgs[i], ext, cfg),
              LAMBDA nxt : layout_loop_skips_last(imgs, i + 1, nxt, ext, cfg))

RECURSIVE layout_loop(_, _, _, _, _)
layout_loop(imgs, i, st, ext, cfg) ==
    IF i > Len(imgs)
    THEN st.transforms
    ELSE Bind(loop_body(st, imgs[i], ext, cfg),
              LAMBDA nxt : layout_loop(imgs, i + 1, nxt, ext, cfg))

Returned(transforms) == [kind |-> "return", transforms |-> transforms]
Raised(error) == [kind |-> "raise", error |-> error]

\* mutant: no early return for an empty list; max([]) raises ValueError
calculate_transforms_no_early_return(imgs, cfg) ==
    IF cfg.ppi = 0 /\ Len(imgs) > 0
    THEN Raised("ZeroDivisionError")
    ELSE IF Len(imgs) = 0
    THEN Raised("ValueError")
    ELSE Bind(layout_extents(imgs, cfg),
              LAMBDA ext :
                  Returned(layout_loop(imgs, 1,
                                       [left_current_cm |-> ext.left_most_cm,
                                        top_current_cm  |-> ext.top_most_cm,
                                        seen            |-> 0,
                                        transforms      |-> EmptyDict],
                                       ext, cfg)))

\* calculate_transforms(config), imgs being the images Image.open yields for
\* config.expanded_glob.  Python raises ZeroDivisionError at line 76 when
\* config.ppi is 0 and the list is not empty.
calculate_transforms(imgs, cfg) ==
    IF Len(imgs) = 0
    THEN Returned(EmptyDict)
    ELSE IF cfg.ppi = 0
    THEN Raised("ZeroDivisionError")
    ELSE Bind(layout_extents(imgs, cfg),
              LAMBDA ext :
                  Returned(layout_loop(imgs, 1,
                                       [left_current_cm |-> ext.left_most_cm,
                                        top_current_cm  |-> ext.top_most_cm,
                                        seen            |-> 0,
                                        transforms      |-> EmptyDict],
                                       ext, cfg)))

\* ------------------------------------------------------------------------
\* Inputs.  A file name is the index of a path in the sorted list of the
\* candidate paths (glob results are sorted and pairwise distinct).
\* ------------------------------------------------------------------------
ImageSizes == {<<300, 300>>, <<150, 300>>, <<300, 150>>}
PpiValues == {-300, 0, 300}
GapValues == {R(0, 1), R(1, 10), R(-1, 2)}
CurveValues == {R(0, 1), R(1, 2), R(1, 1)}

RECURSIVE SortedSeq(_)
\* the sorted list of a finite set of file names
SortedSeq(S) ==
    IF S = {} THEN <<>>
    ELSE LET m == CHOOSE x \in S : \A y \in S : x <= y
         IN  <<m>> \o SortedSeq(S \ {m})

NotCalled == [kind |-> "none"]

NoPrim == [valid |-> FALSE]
Idle == [op |-> "none", outcome |-> "none"]
\* window.py lines 33-38: the models of a new window
InitialModels ==
    [asset_path |-> "", ppi |-> 100, gap |-> R(1, 10), curve |-> R(0, 1),
     images_per_row |-> 1, image_sequence_is_selected |-> FALSE]

\* self._window = None; windows are numbered from 1
None == 0
NoWindows == [w \in {} |-> "visible"]

\* the extension part of the state while the extension is not exercised
ExtIdle ==
    /\ window = None
    /\ windows = NoWindows
    /\ callbacks = {}
    /\ tasks = {}
    /\ menu = FALSE
    /\ running = FALSE

\* the scene part of the state while only calculate_transforms is exercised
SceneIdle ==
    /\ files = {}
    /\ stage_open = FALSE
    /\ prim = NoPrim
    /\ models = InitialModels
    /\ selected_prim_path = "unset"
    /\ selection = "none"
    /\ event_pending = FALSE
    /\ last = Idle
    /\ steps = 0

\* ------------------------------------------------------------------------
\* The files on disk.  Candidate path 2k-1 is "<letter>-x.png" and path 2k is
\* "<letter>_x.png" for the k-th letter, so the indices are in sorted order.
\* ------------------------------------------------------------------------
Letters == <<"a", "b", "c", "d">>

\* Path(asset_path).stem, as its sequence of characters
path_stem(f) == <<Letters[(f + 1) \div 2], IF f % 2 = 1 THEN "-" ELSE "_", "x">>

\* Image.open(path).size
FileSize(f) ==
    IF f % 3 = 1 THEN <<300, 300>> ELSE IF f % 3 = 2 THEN <<150, 300>> ELSE <<300, 150>>

AssetPatterns == {"", "*.png"}

\* glob(path_glob) followed by sort(): "" matches nothing, "*.png" every file
glob(path_glob, fs) == IF path_glob = "*.png" THEN SortedSeq(fs) ELSE <<>>

\* ------------------------------------------------------------------------
\* config.py
\* ------------------------------------------------------------------------
NoConfig == [encoding |-> "none"]

\* codecs.encode(pickle.dumps(config), 'base64'): the attribute holds the
\* encoded text, which only get_config_metadata turns back into a Config
pickle_base64(cfg) == [encoding |-> "pickle+base64", payload |-> cfg]

set_config_metadata(p, cfg) ==
    IF ~p.valid THEN p ELSE [p EXCEPT !.config = pickle_base64(cfg)]

\* None when the prim has no imageseq:config attribute
get_config_metadata(p) ==
    IF p.config = NoConfig THEN NoConfig ELSE p.config.payload

\* ------------------------------------------------------------------------
\* core.py: the scene operations.  A valid root prim is
\*   [valid, config, children], children mapping a child prim name to
\*   [translate, rotate, scale, image_path, mesh]
\* with translate/rotate the xformOps of the image prim, scale the xformOp
\* of its ImageSequenceMesh, image_path the texture of its material and mesh
\* telling whether the ImageSequenceMesh prim exists.
\* ------------------------------------------------------------------------
NoChildren == [n \in {} |-> Zero]

NewRootPrim == [valid |-> TRUE, config |-> NoConfig, children |-> NoChildren]

make_safe_prim_name(name) ==
    [j \in 1..Len(name) |-> IF name[j] \in {"-", ".", "?"} THEN "_" ELSE name[j]]

\* [Image.open(p) for p in config.expanded_glob]
open_images(cfg) ==
    [i \in 1..Len(cfg.expanded_glob) |->
        [filename |-> cfg.expanded_glob[i], size |-> FileSize(cfg.expanded_glob[i])]]

create_textured_quad_prim(children, name, transform, image_path) ==
    DictSet(children, name,
            [translate |-> transform.translate, rotate |-> transform.rotate,
             scale |-> transform.scale, image_path |-> image_path, mesh |-> TRUE])

RECURSIVE create_children(_, _, _, _)
\* the loop of lines 160-172.  Defining a child whose path already holds a
\* prim finds that prim, and AddTranslateOp on it raises (the op exists).
create_children(paths, i, children, transforms) ==
    IF i > Len(paths)
    THEN [children |-> children, outcome |-> "ok"]
    ELSE LET name == make_safe_prim_name(path_stem(paths[i]))
         IN  IF name \in DOMAIN children
             THEN [children |-> children, outcome |-> "raised"]
             ELSE Bind(create_textured_quad_prim(children, name, transforms[paths[i]],
                                                 paths[i]),
                       LAMBDA made : create_children(paths, i + 1, made, transforms))

\* returns the root prim and how the call ended
create_image_sequence_group_prim(p, cfg) ==
    LET root   == IF p.valid THEN p ELSE NewRootPrim
        stored == set_config_metadata(root, cfg)
    IN  Bind(calculate_transforms(open_images(cfg), cfg),
             LAMBDA tr :
                 IF tr.kind = "raise"
                 THEN [prim |-> stored, outcome |-> "raised"]
                 ELSE Bind(create_children(cfg.expanded_glob, 1, stored.children,
                                           tr.transforms),
                           LAMBDA made :
                               [prim |-> [stored EXCEPT !.children = made.children],
                                outcome |-> made.outcome]))

RECURSIVE update_children(_, _, _, _)
\* the loop of lines 186-201
update_children(paths, i, children, transforms) ==
    IF i > Len(paths)
    THEN [children |-> children, outcome |-> "ok"]
    ELSE LET name == make_safe_prim_name(path_stem(paths[i]))
             t    == transforms[paths[i]]
         IN  IF name \notin DOMAIN children
             THEN [children |-> children, outcome |-> "child_missing"]
             ELSE IF ~children[name].mesh
             THEN [children |-> children, outcome |-> "mesh_missing"]
             ELSE Bind([children EXCEPT ![name].translate = t.translate,
                                        ![name].scale = t.scale,
                                        ![name].rotate = t.rotate],
                       LAMBDA upd : update_children(paths, i + 1, upd, transforms))

\* returns the root prim and how the call ended
update_image_sequence_prims(open, p, cfg) ==
    IF ~open
    THEN [prim |-> p, outcome |-> "stage_none"]
    ELSE IF ~p.valid
    THEN [prim |-> p, outcome |-> "prim_invalid"]
    ELSE LET stored == set_config_metadata(p, cfg)
         IN  Bind(calculate_transforms(open_images(cfg), cfg),
                  LAMBDA tr :
                      IF tr.kind = "raise"
                      THEN [prim |-> stored, outcome |-> "raised"]
                      ELSE Bind(update_children(cfg.expanded_glob, 1, stored.children,
                                                tr.transforms),
                                LAMBDA upd :
                                    [prim |-> [stored EXCEPT !.children = upd.children],
                                     outcome |-> upd.outcome]))

\* ------------------------------------------------------------------------
\* LayoutSpec: calculate_transforms applied to every bounded input
\* ------------------------------------------------------------------------
LayoutInit ==
    /\ \E S \in SUBSET (1..MaxImages) :
         LET names == SortedSeq(S) IN
         /\ \E sz \in [S -> ImageSizes] :
              images = [i \in 1..Len(names) |-> [filename |-> names[i], size |-> sz[names[i]]]]
         /\ \E ppi \in PpiValues, gap \in GapValues, curve \in CurveValues,
               ipr \in 0..MaxPerRow :
              config = [path_glob |-> "*", expanded_glob |-> names, ppi |-> ppi,
                        gap_pct |-> gap, curve_pct |-> curve, images_per_row |-> ipr]
    /\ result = NotCalled
    /\ SceneIdle
    /\ ExtIdle

CalculateTransforms ==
    /\ result = NotCalled
    /\ result' = calculate_transforms(images, config)
    /\ UNCHANGED <<images, config>>
    /\ UNCHANGED <<sceneVars, extVars>>

LayoutNext == CalculateTransforms

LayoutSpec == LayoutInit /\ [][LayoutNext]_vars

\* ------------------------------------------------------------------------
\* window.py: the panel.  The state a handler works on is passed around as
\* w = [models, prim]; files on disk and the stage are read from the state.
\* ------------------------------------------------------------------------
PpiChoices == {0, 100, 300}
GapChoices == {R(0, 1), R(1, 10)}
CurveChoices == {R(0, 1), R(1, 1)}
RowChoices == {0, 1, 2}

config_from_models(m, fs) ==
    [path_glob      |-> m.asset_path,
     expanded_glob  |-> glob(m.asset_path, fs),
     ppi            |-> m.ppi,
     gap_pct        |-> m.gap,
     curve_pct      |-> m.curve,
     images_per_row |-> m.images_per_row]

\* _on_change: an exception of update_image_sequence_prims ends it
on_change(w, open, fs) ==
    Bind(update_image_sequence_prims(open, w.prim, config_from_models(w.models, fs)),
         LAMBDA r : [w EXCEPT !.prim = r.prim])

\* model.set_value(v) of a model with a value-changed callback: the callback
\* (_on_change) runs when the value changes; what it raises is logged by the
\* host and does not reach the caller
set_value(w, field, v, open, fs) ==
    IF w.models[field] = v
    THEN w
    ELSE Bind([w EXCEPT !.models[field] = v], LAMBDA edited : on_change(edited, open, fs))

\* the range set on the images_per_row model (set_min, set_max) is not modelled
set_models_from_config(w, cfg, open, fs) ==
    Bind([w EXCEPT !.models.asset_path = cfg.path_glob], LAMBDA w0 :
    Bind(set_value(w0, "ppi", cfg.ppi, open, fs), LAMBDA w1 :
    Bind(set_value(w1, "gap", cfg.gap_pct, open, fs), LAMBDA w2 :
    Bind(set_value(w2, "curve", cfg.curve_pct, open, fs), LAMBDA w3 :
    Bind(set_value(w3, "images_per_row", cfg.images_per_row, open, fs), LAMBDA w4 :
         [w4 EXCEPT !.models.image_sequence_is_selected = TRUE])))))

\* the root prim as _set_models_from_config leaves it after each of its four
\* set_value calls (lines 91-93 and 96), in the order of the calls
set_models_writes(w, cfg, open, fs) ==
    Bind([w EXCEPT !.models.asset_path = cfg.path_glob], LAMBDA w0 :
    Bind(set_value(w0, "ppi", cfg.ppi, open, fs), LAMBDA w1 :
    Bind(set_value(w1, "gap", cfg.gap_pct, open, fs), LAMBDA w2 :
    Bind(set_value(w2, "curve", cfg.curve_pct, open, fs), LAMBDA w3 :
    Bind(set_value(w3, "images_per_row", cfg.images_per_row, open, fs), LAMBDA w4 :
         <<w1.prim, w2.prim, w3.prim, w4.prim>>)))))

\* lines 119-126
DefaultConfig ==
    [path_glob |-> "", expanded_glob |-> <<>>, ppi |-> 300, gap_pct |-> R(0, 1),
     curve_pct |-> R(0, 1), images_per_row |-> 0]

Ended(op, outcome) == [op |-> op, outcome |-> outcome]

\* a behaviour of the model is a session of at most MaxSteps steps
Tick == steps < MaxSteps /\ steps' = steps + 1

\* _on_stage_event for a SELECTION_CHANGED event popped from the event stream
OnStageEvent ==
    /\ Tick
    /\ event_pending
    /\ event_pending' = FALSE
    /\ last' = Ended("stage_event", "ok")
    /\ UNCHANGED <<files, stage_open, selection>>
    /\ UNCHANGED <<layoutVars, extVars>>
    /\ IF ~stage_open
       THEN UNCHANGED <<models, prim, selected_prim_path>>
       ELSE LET hidden == [models EXCEPT !.image_sequence_is_selected = FALSE]
                cfg    == IF selection = "seq" /\ prim.valid
                          THEN get_config_metadata(prim)
                          ELSE NoConfig
            IN  IF cfg = NoConfig
                THEN /\ models' = hidden
                     /\ UNCHANGED <<prim, selected_prim_path>>
                ELSE \E w \in {set_models_from_config([models |-> hidden, prim |-> prim],
                                                        cfg, stage_open, files)} :
                         /\ selected_prim_path' = "seq"
                         /\ models' = w.models
                         /\ prim' = w.prim

\* _on_create_new_image_sequence: the button of the panel.  The new prim gets
\* a path of its own; it becomes the prim the panel works on.
OnCreateNewImageSequence ==
    /\ Tick
    /\ UNCHANGED <<files, stage_open, models>>
    /\ UNCHANGED <<layoutVars, extVars>>
    /\ IF ~stage_open
       THEN /\ last' = Ended("create_new", "raised")
            /\ UNCHANGED <<prim, selected_prim_path, selection, event_pending>>
       ELSE \E r \in {create_image_sequence_group_prim(NoPrim, DefaultConfig)} :
                /\ prim' = r.prim
                /\ selection' = "seq"
                /\ event_pending' = TRUE
                /\ selected_prim_path' = "seq"
                /\ last' = Ended("create_new", r.outcome)

\* _on_asset_path_change after the user ends the edit of the asset path field
OnAssetPathChange(path_glob) ==
    /\ Tick
    /\ models.image_sequence_is_selected
    /\ UNCHANGED <<files, stage_open, selected_prim_path>>
    /\ UNCHANGED <<layoutVars, extVars>>
    /\ LET edited == [models EXCEPT !.asset_path = path_glob]
           cfg    == config_from_models(edited, files)
       IN  IF ~stage_open
           THEN /\ models' = edited
                /\ last' = Ended("asset_path_change", "raised")
                /\ UNCHANGED <<prim, selection, event_pending>>
           ELSE LET emptied == IF prim.valid
                               THEN [prim EXCEPT !.children = NoChildren]
                               ELSE prim
                IN  \E r \in {create_image_sequence_group_prim(emptied, cfg)} :
                    /\ last' = Ended("asset_path_change", r.outcome)
                    /\ IF r.outcome = "raised"
                       THEN /\ prim' = r.prim
                            /\ models' = edited
                            /\ UNCHANGED <<selection, event_pending>>
                       ELSE \E w \in {set_models_from_config(
                                          [models |-> edited, prim |-> r.prim],
                                          cfg, stage_open, files)} :
                                /\ prim' = w.prim
                                /\ models' = w.models
                                /\ selection' = "seq"
                                /\ event_pending' = (event_pending \/ selection # "seq")

\* the user sets one of the four layout fields: the value-changed callback
\* _on_change runs update_image_sequence_prims
OnValueChanged(field, v) ==
    /\ Tick
    /\ models.image_sequence_is_selected
    /\ models[field] # v
    /\ LET edited == [models EXCEPT ![field] = v]
       IN  \E r \in {update_image_sequence_prims(stage_open, prim,
                                                 config_from_models(edited, files))} :
               /\ models' = edited
               /\ prim' = r.prim
               /\ last' = Ended("change", r.outcome)
    /\ UNCHANGED <<files, stage_open, selected_prim_path, selection, event_pending>>
    /\ UNCHANGED <<layoutVars, extVars>>

\* ------------------------------------------------------------------------
\* What happens around the panel: files come and go, the user edits the
\* stage with the host's own tools
\* ------------------------------------------------------------------------
AddFile(f) ==
    /\ Tick
    /\ f \notin files
    /\ files' = files \cup {f}
    /\ last' = Ended("host", "ok")
    /\ UNCHANGED <<stage_open, prim, models, selected_prim_path, selection, event_pending>>
    /\ UNCHANGED <<layoutVars, extVars>>

RemoveFile(f) ==
    /\ Tick
    /\ f \in files
    /\ files' = files \ {f}
    /\ last' = Ended("host", "ok")
    /\ UNCHANGED <<stage_open, prim, models, selected_prim_path, selection, event_pending>>
    /\ UNCHANGED <<layoutVars, extVars>>

RemoveChildPrim ==
    /\ Tick
    /\ stage_open /\ prim.valid
    /\ \E name \in DOMAIN prim.children :
         prim' = [prim EXCEPT !.children =
                     [n \in DOMAIN prim.children \ {name} |-> prim.children[n]]]
    /\ last' = Ended("host", "ok")
    /\ UNCHANGED <<files, stage_open, models, selected_prim_path, selection, event_pending>>
    /\ UNCHANGED <<layoutVars, extVars>>

RemoveMeshPrim ==
    /\ Tick
    /\ stage_open /\ prim.valid
    /\ \E name \in DOMAIN prim.children :
         /\ prim.children[name].mesh
         /\ prim' = [prim EXCEPT !.children[name].mesh = FALSE]
    /\ last' = Ended("host", "ok")
    /\ UNCHANGED <<files, stage_open, models, selected_prim_path, selection, event_pending>>
    /\ UNCHANGED <<layoutVars, extVars>>

RemoveRootPrim ==
    /\ Tick
    /\ stage_open /\ prim.valid
    /\ prim' = NoPrim
    /\ selection' = IF selection = "seq" THEN "none" ELSE selection
    /\ event_pending' = (event_pending \/ selection = "seq")
    /\ last' = Ended("host", "ok")
    /\ UNCHANGED <<files, stage_open, models, selected_prim_path>>
    /\ UNCHANGED <<layoutVars, extVars>>

Select(what) ==
    /\ Tick
    /\ stage_open
    /\ what # selection
    /\ what = "seq" => prim.valid
    /\ selection' = what
    /\ event_pending' = TRUE
    /\ last' = Ended("host", "ok")
    /\ UNCHANGED <<files, stage_open, prim, models, selected_prim_path>>
    /\ UNCHANGED <<layoutVars, extVars>>

CloseStage ==
    /\ Tick
    /\ stage_open
    /\ stage_open' = FALSE
    /\ prim' = NoPrim
    /\ selection' = "none"
    /\ last' = Ended("host", "ok")
    /\ UNCHANGED <<files, models, selected_prim_path, event_pending>>
    /\ UNCHANGED <<layoutVars, extVars>>

NewStage ==
    /\ Tick
    /\ ~stage_open
    /\ stage_open' = TRUE
    /\ last' = Ended("host", "ok")
    /\ UNCHANGED <<files, prim, models, selected_prim_path, selection, event_pending>>
    /\ UNCHANGED <<layoutVars, extVars>>

\* the panel right after the window is built, in an open stage, whatever
\* files are on disk
Init ==
    /\ images = <<>>
    /\ config = DefaultConfig
    /\ result = NotCalled
    /\ files \in SUBSET (1..MaxFiles)
    /\ stage_open = TRUE
    /\ prim = NoPrim
    /\ models = InitialModels
    /\ selected_prim_path = "unset"
    /\ selection = "none"
    /\ event_pending = FALSE
    /\ last = Idle
    /\ steps = 0
    /\ ExtIdle

Next ==
    \/ OnStageEvent
    \/ OnCreateNewImageSequence
    \/ \E g \in AssetPatterns : OnAssetPathChange(g)
    \/ \E v \in PpiChoices : OnValueChanged("ppi", v)
    \/ \E v \in GapChoices : OnValueChanged("gap", v)
    \/ \E v \in CurveChoices : OnValueChanged("curve", v)
    \/ \E v \in RowChoices : OnValueChanged("images_per_row", v)
    \/ \E f \in 1..MaxFiles : AddFile(f)
    \/ \E f \in 1..MaxFiles : RemoveFile(f)
    \/ RemoveChildPrim
    \/ RemoveMeshPrim
    \/ RemoveRootPrim
    \/ \E what \in {"none", "seq", "other"} : Select(what)
    \/ CloseStage
    \/ NewStage

Spec == Init /\ [][Next]_vars

\* ------------------------------------------------------------------------
\* extension.py: the extension that owns the window.  A window is "visible",
\* "hidden" (visible = False) or "destroyed".  The host reports a change of
\* visibility by calling the window's visibility-changed callback, and it
\* resumes a task that awaits next_update_async() on a later frame.
\* ------------------------------------------------------------------------
\* window.destroy(): a destroyed window reports nothing any more
destroy(ws, w) == [ws EXCEPT ![w] = "destroyed"]

\* KitImageSequenceWindow(...) followed by set_visibility_changed_fn
new_window(ws) ==
    [w \in DOMAIN ws \cup {Cardinality(DOMAIN ws) + 1} |->
        IF w \in DOMAIN ws THEN ws[w] ELSE "visible"]

\* show_window(menu, value), lines 67-72
show_window(value) ==
    IF value
    THEN /\ Cardinality(DOMAIN windows) < MaxWindows
         /\ windows' = new_window(windows)
         /\ window' = Cardinality(DOMAIN windows) + 1
         /\ UNCHANGED callbacks
    ELSE IF window # None /\ windows[window] = "visible"
    THEN /\ windows' = [windows EXCEPT ![window] = "hidden"]
         /\ callbacks' = callbacks \cup {window}
         /\ UNCHANGED window
    ELSE UNCHANGED <<window, windows, callbacks>>

\* the user clicks the toggle item of the editor menu (line 26): the host
\* flips the item and calls show_window(menu, value) with the new value
MenuClick ==
    /\ running
    /\ menu' = ~menu
    /\ show_window(~menu)
    /\ UNCHANGED <<tasks, running>>
    /\ UNCHANGED <<layoutVars, sceneVars>>

\* omni.ui.Workspace.show_window(WINDOW_NAME, value) by the host or another
\* extension (a layout being restored): the function registered at line 21
WorkspaceShowWindow(value) ==
    /\ running
    /\ show_window(value)
    /\ UNCHANGED <<tasks, menu, running>>
    /\ UNCHANGED <<layoutVars, sceneVars>>

\* the user presses "X" on a window that is on screen
UserClose(w) ==
    /\ w \in DOMAIN windows /\ windows[w] = "visible"
    /\ windows' = [windows EXCEPT ![w] = "hidden"]
    /\ callbacks' = callbacks \cup {w}
    /\ UNCHANGED <<window, tasks, menu, running>>
    /\ UNCHANGED <<layoutVars, sceneVars>>

\* _visibility_changed_fn(False) called by window w, lines 59-65
VisibilityChangedFn(w) ==
    /\ w \in callbacks
    /\ callbacks' = callbacks \ {w}
    /\ menu' = FALSE
    /\ tasks' = tasks \cup {w}
    /\ UNCHANGED <<window, windows, running>>
    /\ UNCHANGED <<layoutVars, sceneVars>>

\* _destroy_window_async resumed after next_update_async(), lines 55-57; t is
\* the window whose hiding scheduled the task
DestroyWindowAsync(t) ==
    /\ t \in tasks
    /\ tasks' = tasks \ {t}
    /\ IF window # None
       THEN /\ windows' = destroy(windows, window)
            /\ callbacks' = callbacks \ {window}
            /\ window' = None
       ELSE UNCHANGED <<window, windows, callbacks>>
    /\ UNCHANGED <<menu, running>>
    /\ UNCHANGED <<layoutVars, sceneVars>>

\* on_shutdown, lines 32-43
OnShutdown ==
    /\ running
    /\ running' = FALSE
    /\ menu' = FALSE
    /\ IF window # None
       THEN /\ windows' = destroy(windows, window)
            /\ callbacks' = callbacks \ {window}
            /\ window' = None
       ELSE UNCHANGED <<window, windows, callbacks>>
    /\ UNCHANGED tasks
    /\ UNCHANGED <<layoutVars, sceneVars>>

\* the state on_startup leaves: _window = None, the menu item added with
\* value True, and Workspace.show_window (line 30) having created a window
ExtInit ==
    /\ images = <<>>
    /\ config = DefaultConfig
    /\ result = NotCalled
    /\ SceneIdle
    /\ window = 1
    /\ windows = new_window(NoWindows)
    /\ callbacks = {}
    /\ tasks = {}
    /\ menu = TRUE
    /\ running = TRUE

ExtNext ==
    \/ MenuClick
    \/ \E value \in BOOLEAN : WorkspaceShowWindow(value)
    \/ \E w \in 1..MaxWindows : UserClose(w)
    \/ \E w \in 1..MaxWindows : VisibilityChangedFn(w)
    \/ \E t \in 1..MaxWindows : DestroyWindowAsync(t)
    \/ OnShutdown

ExtSpec == ExtInit /\ [][ExtNext]_vars

\* ------------------------------------------------------------------------
\* Claims about calculate_transforms (checked under LayoutSpec)
\* ------------------------------------------------------------------------
Called == result # NotCalled
ReturnedOk == result.kind = "return"
ImageCount == Len(images)
\* the transform returned for the image at input position i (1-based)
TransformOf(i) == result.transforms[images[i].filename]
Ext == layout_extents(images, config)
\* zero-based column and row of input position i in rows of k images
ColumnOf(i, k) == (i - 1) % k
RowOf(i, k) == (i - 1) \div k
\* the straight-line cursor of column c and the vertical cursor of row r
CursorLeft(ext, c) ==
    RatAdd(ext.left_most_cm,
           RatMul(RatOfInt(c), RatAdd(ext.max_image_width_cm, ext.image_gap_cm)))
CursorTop(ext, r) ==
    RatSub(ext.top_most_cm,
           RatMul(RatOfInt(r), RatAdd(ext.max_image_height_cm, ext.image_gap_cm)))
\* 1 inch = 2.54 cm
CmPerInch == R(127, 50)
PixelsToCm(px, ppi) == RatMul(R(px, ppi), CmPerInch)
Uniform300 == \A i \in 1..ImageCount : images[i].size = <<300, 300>>

\* C1: for every image of w x h pixels and ppi > 0 the scale is
\* (w / ppi * 2.54, h / ppi * 2.54, 1); for 3 images of 300x300 px, ppi 300,
\* gap fraction 0.1, curve 0 and 3 per row the scales are (2.54, 2.54, 1) and
\* the x translations are -2.794, 0 and +2.794.
C1_ScaleIsCentimetres ==
    (ReturnedOk /\ config.ppi > 0) =>
        /\ \A i \in 1..ImageCount :
             TransformOf(i).scale =
                 <<PixelsToCm(images[i].size[1], config.ppi),
                   PixelsToCm(images[i].size[2], config.ppi), One>>
        /\ ( /\ ImageCount = 3 /\ Uniform300 /\ config.ppi = 300
             /\ config.gap_pct = R(1, 10) /\ config.curve_pct = Zero
             /\ config.images_per_row = 3 )
           => /\ TransformOf(1).translate[1] = R(-2794, 1000)
              /\ TransformOf(2).translate[1] = Zero
              /\ TransformOf(3).translate[1] = R(2794, 1000)

\* C2: for a non-empty image list and pixelsPerInch <= 0 the call fails with
\* InvalidParameter and returns no transform mapping.
C2_NonPositivePpiIsInvalidParameter ==
    (Called /\ ImageCount > 0 /\ config.ppi <= 0) =>
        result = Raised("InvalidParameter")

\* C3: for an empty image list and any parameters (ppi 0 or negative
\* included) the call returns an empty mapping and raises nothing.
C3_EmptyInputReturnsEmpty ==
    (Called /\ ImageCount = 0) => result = Returned(EmptyDict)

C3_Witness ==
    /\ Called /\ ImageCount = 0 /\ config.ppi = 0 /\ config.images_per_row = 0
    /\ result = Returned(EmptyDict)

\* C4: for n images with pairwise distinct identities and valid parameters
\* the mapping has exactly n entries, its keys are the input identities, and
\* each key maps to the transform of that image at its input position.
C4_OneEntryPerImage ==
    (ReturnedOk /\ config.ppi > 0) =>
        /\ DOMAIN result.transforms = {images[i].filename : i \in 1..ImageCount}
        /\ Cardinality(DOMAIN result.transforms) = ImageCount
        /\ ImageCount > 0 =>
             LET ext == Ext
                 k   == ext.images_per_row
             IN  \A i \in 1..ImageCount :
                   LET left == CursorLeft(ext, ColumnOf(i, k))
                   IN  TransformOf(i) =
                         [translate |-> image_translate(left, CursorTop(ext, RowOf(i, k)),
                                                        ext, config),
                          scale     |-> image_scale(images[i], config),
                          rotate    |-> image_rotate(left, ext, config)]

C4_Witness ==
    /\ ReturnedOk /\ config.ppi > 0 /\ ImageCount = MaxImages
    /\ Cardinality(DOMAIN result.transforms) = MaxImages
    /\ \E i, j \in 1..ImageCount : TransformOf(i).scale # TransformOf(j).scale

\* C5: with imagesPerRow = k >= 1 the image at index i (0-based) has
\* translation.y = topmost - floor(i / k) * (maxImageHeightCm + imageGapCm)
\* and its horizontal cursor is that of column i mod k (reset to leftmost at
\* the start of a row); no row holds more than k images and there are
\* ceil(n / k) rows.
RowStep(ext) == RatAdd(ext.max_image_height_cm, ext.image_gap_cm)
RowsUsed == {TransformOf(i).translate[2] : i \in 1..ImageCount}
C5_RowWrapping ==
    (ReturnedOk /\ ImageCount > 0 /\ config.images_per_row >= 1) =>
        LET k   == config.images_per_row
            ext == Ext
        IN
        /\ \A i \in 1..ImageCount :
             /\ TransformOf(i).translate[2] = CursorTop(ext, RowOf(i, k))
             /\ TransformOf(i).translate =
                    image_translate(CursorLeft(ext, ColumnOf(i, k)),
                                    TransformOf(i).translate[2], ext, config)
        /\ \A i \in 1..ImageCount :
             (i > k) => TransformOf(i).translate[2] =
                            RatSub(TransformOf(i - k).translate[2], RowStep(ext))
        /\ RowStep(ext) # Zero =>
             /\ Cardinality(RowsUsed) = (ImageCount + k - 1) \div k
             /\ \A y \in RowsUsed :
                  Cardinality({i \in 1..ImageCount : TransformOf(i).translate[2] = y}) <= k

C5_Witness ==
    /\ ReturnedOk /\ config.images_per_row = 2 /\ ImageCount = 3
    /\ RowStep(Ext) # Zero
    /\ TransformOf(1).translate[2] = TransformOf(2).translate[2]
    /\ TransformOf(3).translate[2] = RatSub(TransformOf(1).translate[2], RowStep(Ext))
    /\ TransformOf(3).translate[1] = TransformOf(1).translate[1]

\* C6 (as claimed): a single image has translation (0, 0, 0) for any
\* curveFraction and any imagesPerRow.
C6_SingleImageAtOriginAnyRow ==
    (ReturnedOk /\ ImageCount = 1 /\ config.ppi > 0) => TransformOf(1).translate = <<Zero, Zero, Zero>>

\* C6 (amended): a single image with imagesPerRow <= 1 has translation
\* (0, 0, 0) for any curveFraction: the arc radius amp is 0, so the
\* translation is the straight-line one.
C6_SingleImageAtOrigin ==
    (ReturnedOk /\ ImageCount = 1 /\ config.images_per_row <= 1) =>
        LET ext == Ext IN
        /\ arc_amp(ext) = Zero
        /\ TransformOf(1).translate = <<Zero, Zero, Zero>>
        /\ TransformOf(1).translate = <<ext.left_most_cm, ext.top_most_cm, Zero>>

C6_Witness ==
    /\ ReturnedOk /\ ImageCount = 1 /\ config.images_per_row = 1
    /\ config.curve_pct = One
    /\ TransformOf(1).translate = <<Zero, Zero, Zero>>

\* the fractional position in its row of the image at input position i
FractionInRow(ext, i) ==
    LET k == ext.images_per_row
    IN  IF RatLess(Zero, ext.total_width_cm) THEN R(ColumnOf(i, k), k - 1) ELSE Zero
\* (1 - t) * 180 + 90
PhaseDegrees(t) == RatAdd(RatMul(RatSub(One, t), RatOfInt(180)), RatOfInt(90))

C8_StraightLine ==
    (ReturnedOk /\ ImageCount > 0 /\ config.curve_pct = Zero /\ config.ppi > 0) =>
        LET ext == Ext IN
        \A i \in 1..ImageCount :
            /\ TransformOf(i).translate[3] = Zero
            /\ TransformOf(i).rotate = <<Zero, Zero, Zero>>
            /\ TransformOf(i).translate[1] = CursorLeft(ext, ColumnOf(i, ext.images_per_row))

C8_Witness ==
    /\ ReturnedOk /\ config.curve_pct = Zero /\ config.ppi > 0
    /\ ImageCount = 3 /\ config.images_per_row = 2
    /\ RatLess(Zero, Ext.total_width_cm)
    /\ TransformOf(2).translate[1] = RatNeg(TransformOf(1).translate[1])
    /\ TransformOf(2).translate[3] = Zero

\* ------------------------------------------------------------------------
\* Claims about the scene operations (checked under Spec)
\* ------------------------------------------------------------------------
StoredConfig == get_config_metadata(prim)
ChildNameOf(f) == make_safe_prim_name(path_stem(f))
\* the child prim of image f carries the transform tr and the texture of f
CarriesImage(f, tr) ==
    /\ ChildNameOf(f) \in DOMAIN prim.children
    /\ prim.children[ChildNameOf(f)].image_path = f
    /\ prim.children[ChildNameOf(f)].translate = tr.translate
    /\ prim.children[ChildNameOf(f)].rotate = tr.rotate
    /\ prim.children[ChildNameOf(f)].scale = tr.scale

\* C9: after _on_asset_path_change has removed the old children and run
\* create_image_sequence_group_prim for n images with pairwise distinct
\* paths, the root prim has exactly n image children, each carrying the
\* transform and the texture of its own image.
C9_OneChildPerImage ==
    ( /\ last.op = "asset_path_change" /\ prim.valid
      /\ StoredConfig # NoConfig /\ StoredConfig.ppi > 0 ) =>
        LET cfg == StoredConfig
            tr  == calculate_transforms(open_images(cfg), cfg)
        IN  /\ Cardinality(DOMAIN prim.children) = Len(cfg.expanded_glob)
            /\ \A i \in 1..Len(cfg.expanded_glob) :
                 CarriesImage(cfg.expanded_glob[i], tr.transforms[cfg.expanded_glob[i]])

\* C10: whenever update_image_sequence_prims ends without updating every
\* image node (stage None, root prim invalid, a child or its mesh missing,
\* the layout computation failing), the config stored on the root prim and
\* the transforms of all children are what they were before the call.
C10_UpdateAllOrNothing ==
    [][(last'.op = "change" /\ last'.outcome # "ok") => prim' = prim]_vars

\* the event that OnStageEvent is about to handle selects a node that
\* carries a stored config
SelectsStoredConfig ==
    /\ event_pending /\ stage_open
    /\ selection = "seq" /\ prim.valid
    /\ StoredConfig # NoConfig

\* the states of the selected node during _set_models_from_config
SelectionWrites ==
    set_models_writes([models |-> [models EXCEPT !.image_sequence_is_selected = FALSE],
                       prim |-> prim],
                      StoredConfig, stage_open, files)

\* C12: selecting an image-sequence node only reads its parameters: while
\* and after _on_stage_event handles a selection whose first node carries a
\* stored config, the config stored on the node and the transforms of its
\* children are what they were before the event, whatever the models held.
C12_SelectionOnlyReads ==
    [][(SelectsStoredConfig /\ last'.op = "stage_event") =>
          /\ prim' = prim
          /\ \A k \in 1..Len(SelectionWrites) : SelectionWrites[k] = prim]_vars

\* ------------------------------------------------------------------------
\* Claims about the extension (checked under ExtSpec)
\* ------------------------------------------------------------------------
Live == {w \in DOMAIN windows : windows[w] # "destroyed"}

\* C11: under every interleaving of show_window(True), show_window(False),
\* the visibility-changed callback and the deferred _destroy_window_async
\* task, the extension holds at most one live window: a live window is the
\* one self._window refers to, and a deferred destroy scheduled when one
\* window was hidden never destroys a different, later window.
C11_AtMostOneLiveWindow ==
    [][ /\ \A w \in DOMAIN windows' : windows'[w] # "destroyed" => window' = w
        /\ \A t \in tasks \ tasks' :
             \A w \in Live : windows'[w] = "destroyed" => w = t ]_vars

====
